---- MODULE Spec2Model ----
(***************************************************************************)
(* Session and resource-lifecycle coordinator of the voice-to-video tool   *)
(* (src/main.js): the recording flow, the export flow, resetApp and the    *)
(* host objects they drive (MediaRecorder, MediaStream, SpeechRecognition, *)
(* WaveSurfer, AudioContext, requestAnimationFrame loop, timers).          *)
(*                                                                         *)
(* Every handler of main.js runs to completion on the single event loop,   *)
(* so each handler is one action.  The script's module-scope variables     *)
(* keep their names.  A handler is written as a function from the state    *)
(* record (Cur) to the next state record, so that a handler that calls     *)
(* resetApp or updateButtonStates contains that call.                      *)
(***************************************************************************)
EXTENDS Integers, Sequences, FiniteSets, TLC

\* ----------------------------------------------------------------- bounds
MaxRecordings == 2     \* microphone streams acquired in one behaviour
MaxPending == 2        \* startRecording calls suspended at getUserMedia at a time
MaxExports == 2        \* export runs that pass the pre-checks in one behaviour
MaxChunks == 1         \* fragments the audio encoder delivers before its final one
MaxVideoChunks == 1    \* fragments the export encoder delivers before its final one
MaxText == 2           \* characters of finalized transcript
MaxWrapText == 7       \* characters of a transcript handed to drawWrappedText
MaxLineWidth == 4      \* largest max content width, in width units

\* -------------------------------------------------------- program constants
MIN_RECORDING_BLOB_SIZE == 100

\* Sizes (bytes) a delivered fragment can have.
FragSizes == {0, 60, 500}

\* Ranked preference list of audio encodings (startRecording).
mimeTypes ==
  << "audio/webm;codecs=opus", "audio/webm", "audio/mp4;codecs=mp4a.40.2",
     "audio/mp4", "audio/mpeg", "audio/ogg;codecs=opus", "audio/ogg", "audio/wav" >>

\* Ranked preference list of combined output encodings (generateVideo).
preferredVideoMimeTypes ==
  << "video/mp4;codecs=avc1.42E01E,mp4a.40.2", "video/mp4",
     "video/webm;codecs=vp9,opus", "video/webm;codecs=vp8,vorbis", "video/webm" >>

\* The sets of encodings a host may support (MediaRecorder.isTypeSupported).
NoTypes == {}
WebmTypes == {"audio/webm", "audio/ogg", "video/webm"}
Mp4Types == {"audio/mp4", "audio/wav", "video/mp4", "video/webm"}
AudioOnlyTypes == {"audio/ogg"}

\* The hosts the page is loaded in: which optional interfaces exist, whether
\* the waveform library initialised, and the encodings supported.
Hosts ==
  { [speech |-> TRUE,  ws |-> TRUE,  capture |-> TRUE,  audioCtx |-> TRUE,  types |-> WebmTypes],
    [speech |-> FALSE, ws |-> FALSE, capture |-> TRUE,  audioCtx |-> TRUE,  types |-> Mp4Types],
    [speech |-> TRUE,  ws |-> FALSE, capture |-> FALSE, audioCtx |-> TRUE,  types |-> AudioOnlyTypes],
    [speech |-> FALSE, ws |-> TRUE,  capture |-> TRUE,  audioCtx |-> FALSE, types |-> NoTypes] }

\* ------------------------------------------------------------------ text
\* A text is a sequence of one-character strings.
Chars == {"a", " "}

RECURSIVE TrimLeft(_)
TrimLeft(s) == IF s # << >> /\ Head(s) = " " THEN TrimLeft(Tail(s)) ELSE s

RECURSIVE TrimRight(_)
TrimRight(s) ==
  IF s # << >> /\ s[Len(s)] = " " THEN TrimRight(SubSeq(s, 1, Len(s) - 1)) ELSE s

\* String.prototype.trim
Trim(s) == TrimRight(TrimLeft(s))

\* Texts the user can leave in the transcript box by editing it.
UserTexts == { << >>, << " " >>, << "a" >> }

\* ------------------------------------------------------------- fragments
RECURSIVE SumSeq(_)
SumSeq(s) == IF s = << >> THEN 0 ELSE Head(s) + SumSeq(Tail(s))

\* new Blob(parts, {type}): the parts in order, its size their total size.
BlobPrepend(parts, type) ==
  [parts |-> [i \in 1..Len(parts) |-> parts[Len(parts) + 1 - i]],
   size |-> SumSeq(parts), type |-> type]

Blob(parts, type) == [parts |-> parts, size |-> SumSeq(parts), type |-> type]

NULL == "null"
\* The value of audioBlob while it holds no Blob.
NullBlob == [parts |-> << >>, size |-> 0, type |-> NULL]

\* ------------------------------------------------------------- variables
VARIABLES
  \* module-scope variables of main.js
  isRecording, isProcessingStop, mediaRecorder, audioChunks, recognition,
  finalTranscript, stream, audioBlob, supportedAudioType, wavesurfer,
  audioContextForVideo, bufferSourceNodeForVideo, destinationNodeForVideo,
  canvasAnimationId,
  \* DOM state the script reads and writes
  subtitle,        \* subtitle.value
  ui,              \* last updateButtonStates argument, disabled flags, readOnly
  status,          \* the last message handed to showStatus
  shown,           \* the messages of the last handler that called showStatus
  \* host capabilities (fixed at page load)
  hasSpeechRecognition, hasCanvasCaptureStream, hasAudioContext, typesSupported,
  \* host objects
  recorders,       \* audio MediaRecorder objects, by creation order
  micLive,         \* microphone streams whose tracks are live
  pendingMic,      \* startRecording calls suspended at await getUserMedia
  nStarts,         \* microphone streams acquired so far
  sr,              \* the SpeechRecognition engine
  wsLoading,       \* a wavesurfer.loadBlob whose ready/error event is due
  errTimers,       \* armed grace timers of mediaRecorder.onerror
  exports,         \* export runs: position, locals, and the objects they created
  nExports,        \* export runs that passed the pre-checks so far
  \* one call of drawWrappedText
  wrap             \* its arguments and, once it has run, the lines it drew

progVars ==
  << isRecording, isProcessingStop, mediaRecorder, audioChunks, recognition,
     finalTranscript, stream, audioBlob, supportedAudioType, wavesurfer,
     audioContextForVideo, bufferSourceNodeForVideo, destinationNodeForVideo,
     canvasAnimationId, subtitle, ui, status,
     hasSpeechRecognition, hasCanvasCaptureStream, hasAudioContext, typesSupported,
     recorders, micLive, pendingMic, nStarts, sr, wsLoading, errTimers,
     exports, nExports, shown >>

vars == << progVars, wrap >>

\* The state as one record, so that handlers compose.
Cur ==
  [ isRecording |-> isRecording, isProcessingStop |-> isProcessingStop,
    mediaRecorder |-> mediaRecorder, audioChunks |-> audioChunks,
    recognition |-> recognition, finalTranscript |-> finalTranscript,
    stream |-> stream, audioBlob |-> audioBlob,
    supportedAudioType |-> supportedAudioType, wavesurfer |-> wavesurfer,
    audioContextForVideo |-> audioContextForVideo,
    bufferSourceNodeForVideo |-> bufferSourceNodeForVideo,
    destinationNodeForVideo |-> destinationNodeForVideo,
    canvasAnimationId |-> canvasAnimationId,
    subtitle |-> subtitle, ui |-> ui, status |-> status,
    hasSpeechRecognition |-> hasSpeechRecognition,
    hasCanvasCaptureStream |-> hasCanvasCaptureStream,
    hasAudioContext |-> hasAudioContext, typesSupported |-> typesSupported,
    recorders |-> recorders, micLive |-> micLive, pendingMic |-> pendingMic,
    nStarts |-> nStarts, sr |-> sr, wsLoading |-> wsLoading,
    errTimers |-> errTimers, exports |-> exports, nExports |-> nExports,
    shown |-> << >> ]


\* The next state is T.
Assign(T) ==
  /\ isRecording' = T.isRecording
  /\ isProcessingStop' = T.isProcessingStop
  /\ mediaRecorder' = T.mediaRecorder
  /\ audioChunks' = T.audioChunks
  /\ recognition' = T.recognition
  /\ finalTranscript' = T.finalTranscript
  /\ stream' = T.stream
  /\ audioBlob' = T.audioBlob
  /\ supportedAudioType' = T.supportedAudioType
  /\ wavesurfer' = T.wavesurfer
  /\ audioContextForVideo' = T.audioContextForVideo
  /\ bufferSourceNodeForVideo' = T.bufferSourceNodeForVideo
  /\ destinationNodeForVideo' = T.destinationNodeForVideo
  /\ canvasAnimationId' = T.canvasAnimationId
  /\ subtitle' = T.subtitle
  /\ ui' = T.ui
  /\ status' = T.status
  /\ hasSpeechRecognition' = T.hasSpeechRecognition
  /\ hasCanvasCaptureStream' = T.hasCanvasCaptureStream
  /\ hasAudioContext' = T.hasAudioContext
  /\ typesSupported' = T.typesSupported
  /\ recorders' = T.recorders
  /\ micLive' = T.micLive
  /\ pendingMic' = T.pendingMic
  /\ nStarts' = T.nStarts
  /\ sr' = T.sr
  /\ wsLoading' = T.wsLoading
  /\ errTimers' = T.errTimers
  /\ exports' = T.exports
  /\ nExports' = T.nExports
  /\ shown' = IF T.shown = << >> THEN shown ELSE T.shown
  /\ wrap' = wrap

SetInit(T) ==
  /\ isRecording = T.isRecording
  /\ isProcessingStop = T.isProcessingStop
  /\ mediaRecorder = T.mediaRecorder
  /\ audioChunks = T.audioChunks
  /\ recognition = T.recognition
  /\ finalTranscript = T.finalTranscript
  /\ stream = T.stream
  /\ audioBlob = T.audioBlob
  /\ supportedAudioType = T.supportedAudioType
  /\ wavesurfer = T.wavesurfer
  /\ audioContextForVideo = T.audioContextForVideo
  /\ bufferSourceNodeForVideo = T.bufferSourceNodeForVideo
  /\ destinationNodeForVideo = T.destinationNodeForVideo
  /\ canvasAnimationId = T.canvasAnimationId
  /\ subtitle = T.subtitle
  /\ ui = T.ui
  /\ status = T.status
  /\ hasSpeechRecognition = T.hasSpeechRecognition
  /\ hasCanvasCaptureStream = T.hasCanvasCaptureStream
  /\ hasAudioContext = T.hasAudioContext
  /\ typesSupported = T.typesSupported
  /\ recorders = T.recorders
  /\ micLive = T.micLive
  /\ pendingMic = T.pendingMic
  /\ nStarts = T.nStarts
  /\ sr = T.sr
  /\ wsLoading = T.wsLoading
  /\ errTimers = T.errTimers
  /\ exports = T.exports
  /\ nExports = T.nExports
  /\ shown = T.shown

\* ----------------------------------------------------------- host objects
\* An audio MediaRecorder.  stop() makes it inactive at once and queues the
\* final dataavailable and then the stop event.  delivered is the history of
\* the fragments it has handed to ondataavailable.
NoRecorder == [st |-> "none", pendStop |-> FALSE, delivered |-> << >>]

\* One export run (one call of generateVideo that passed the pre-checks) with
\* its locals (canvasStream/combinedStream, videoRecorder, videoChunks, the
\* stop timer) and the objects it created (redraw loop, AudioContext, source
\* and destination node).  rel counts the release calls made on each object.
NoRelease == [loop |-> 0, cs |-> 0, src |-> 0, dst |-> 0, ctx |-> 0]

NoExport ==
  [ pc |-> "none", outcome |-> << >>, loop |-> "none", cstream |-> "none",
    ctx |-> "none", ctxThen |-> FALSE, waitCtx |-> 0, src |-> "none", dst |-> "none",
    vrec |-> "none", pendStop |-> FALSE,
    videoChunks |-> << >>, timer |-> FALSE, downloads |-> << >>,
    rel |-> NoRelease ]

Inc(n) == IF n >= 2 THEN 2 ELSE n + 1

\* Run j is over and nothing of it can act any more: generateVideo returned,
\* its recorder has stopped for good (so the callbacks of its source node and
\* of its stop timer find nothing to stop), its loop, stream and context are
\* released, and no module-scope variable refers to its objects.
Unreachable(S, j) ==
  LET E == S.exports[j]
  IN  /\ E.pc = "done"
      /\ E.vrec # "recording" /\ ~E.pendStop
      /\ E.ctx # "running" /\ ~E.ctxThen
      /\ E.loop # "running" /\ E.cstream # "live"
      /\ j \notin {S.audioContextForVideo, S.bufferSourceNodeForVideo,
                   S.destinationNodeForVideo, S.canvasAnimationId}
      /\ \A k \in 1..MaxExports : S.exports[k].waitCtx # j

RetiredExport == [NoExport EXCEPT !.pc = "retired"]

\* A handler leaves the state T; the runs that were unreachable before it ran
\* are forgotten.
Set(T) ==
  \E U \in {T} :
    \E V \in {[U EXCEPT !.exports =
                 [j \in 1..MaxExports |->
                    IF Unreachable(Cur, j) /\ U.exports[j] = exports[j]
                      THEN RetiredExport ELSE U.exports[j]]]} :
      Assign(V)

\* exports with run j changed by the record update u (a function on slots).
Released(E, j, what) == [E EXCEPT ![j].rel[what] = Inc(@)]

\* ------------------------------------------------------------ showStatus
ShowStatus(S, message) == [S EXCEPT !.status = message, !.shown = Append(@, message)]

\* ------------------------------------------------------ updateButtonStates
\* updateButtonStates without isRecordingState in the reset control's rule.
UpdateButtonStatesResetFree(S, state) ==
  LET isIdle == state = "idle"
      isRecordingState == state = "recording"
      isRecorded == state = "recorded"
      isProcessing == state = "processing"
      noData == isIdle /\ S.audioBlob = NullBlob /\ Trim(S.subtitle) = << >>
      U == [ state |-> state,
             startDisabled |-> ~isIdle \/ isProcessing,
             stopDisabled |-> ~isRecordingState \/ S.isProcessingStop,
             resetDisabled |-> noData \/ isProcessing,
             clearDisabled |-> noData \/ isProcessing \/ isRecordingState,
             videoDisabled |-> \/ ~isRecorded \/ isProcessing
                               \/ S.audioBlob = NullBlob \/ Trim(S.subtitle) = << >>
                               \/ ~S.hasCanvasCaptureStream \/ ~S.hasAudioContext,
             readOnly |-> isRecordingState \/ isProcessing ]
      S1 == [S EXCEPT !.ui = U]
  IN  IF isProcessing THEN ShowStatus(S1, "Processing")
      ELSE IF isRecordingState THEN ShowStatus(S1, "Recording")
      ELSE IF isIdle THEN ShowStatus(S1, "Ready")
      ELSE S1

UpdateButtonStates(S, state) ==
  LET isIdle == state = "idle"
      isRecordingState == state = "recording"
      isRecorded == state = "recorded"
      isProcessing == state = "processing"
      \* The controls, given the values V of the program's variables.
      Controls(V) ==
        LET noData == isIdle /\ V.audioBlob = NullBlob /\ Trim(V.subtitle) = << >>
            U == [ state |-> state,
                   startDisabled |-> ~isIdle \/ isProcessing,
                   stopDisabled |-> ~isRecordingState \/ V.isProcessingStop,
                   resetDisabled |-> noData \/ isProcessing \/ isRecordingState,
                   clearDisabled |-> noData \/ isProcessing \/ isRecordingState,
                   videoDisabled |-> \/ ~isRecorded \/ isProcessing
                                     \/ V.audioBlob = NullBlob \/ Trim(V.subtitle) = << >>
                                     \/ ~V.hasCanvasCaptureStream \/ ~V.hasAudioContext,
                   readOnly |-> isRecordingState \/ isProcessing ]
            S1 == [V EXCEPT !.ui = U]
        IN  IF isProcessing THEN ShowStatus(S1, "Processing")
            ELSE IF isRecordingState THEN ShowStatus(S1, "Recording")
            ELSE IF isIdle THEN ShowStatus(S1, "Ready")
            ELSE S1
  IN  CHOOSE R \in {Controls(V) : V \in {S}} : TRUE

\* ---------------------------------------------------------------- resetApp
\* MediaRecorder.stop() on recorder i.
RecorderStopCall(R, i) ==
  [R EXCEPT ![i] = [@ EXCEPT !.st = "inactive", !.pendStop = TRUE]]

\* SpeechRecognition has no state attribute: recognition.state reads undefined.
RecognitionStateAttr == "undefined"

\* SpeechRecognition.abort(): a listening engine stops delivering results and
\* its end event is queued; otherwise nothing happens.
SrAbort(e) == IF e = "listening" THEN "ending" ELSE e

\* The handles on which resetApp invokes a release call in state S.
ResetReleases(S) ==
  (IF S.mediaRecorder # 0 /\ S.recorders[S.mediaRecorder].st # "inactive"
     THEN {<<"rec", S.mediaRecorder>>} ELSE {})
  \cup (IF S.recognition # NULL /\ RecognitionStateAttr # "idle"
          THEN {<<"recognition", 0>>} ELSE {})
  \cup (IF S.stream # 0 THEN {<<"mic", S.stream>>} ELSE {})
  \cup (IF S.bufferSourceNodeForVideo # 0
          THEN {<<"src", S.bufferSourceNodeForVideo>>} ELSE {})
  \cup (IF S.destinationNodeForVideo # 0
          THEN {<<"dst", S.destinationNodeForVideo>>} ELSE {})
  \cup (IF S.audioContextForVideo # 0 /\ S.exports[S.audioContextForVideo].ctx # "closed"
          THEN {<<"ctx", S.audioContextForVideo>>} ELSE {})
  \cup (IF S.canvasAnimationId # 0 THEN {<<"loop", S.canvasAnimationId>>} ELSE {})

ResetRecording(S) ==
  LET mr == S.mediaRecorder
      S1 == [S EXCEPT !.isRecording = FALSE, !.isProcessingStop = FALSE]
      S2 == IF mr # 0 /\ S1.recorders[mr].st # "inactive"
              THEN [S1 EXCEPT !.recorders = RecorderStopCall(@, mr)] ELSE S1
      S3 == [S2 EXCEPT !.mediaRecorder = 0]
      S4 == IF S3.recognition # NULL /\ RecognitionStateAttr # "idle"
              THEN [S3 EXCEPT !.sr = SrAbort(@)] ELSE S3
  IN  [S4 EXCEPT !.micLive = @ \ {S.stream}, !.stream = 0, !.audioChunks = << >>]

ResetData(S, preserveAudio) ==
  IF ~preserveAudio
    THEN [S EXCEPT !.finalTranscript = << >>, !.subtitle = << >>,
                   !.audioBlob = NullBlob, !.supportedAudioType = ""]
    ELSE S

ResetWaveSurfer(S, preserveAudio) ==
  IF S.wavesurfer # NULL
    THEN LET empties == ~preserveAudio \/ S.audioBlob = NullBlob
         IN  [S EXCEPT !.wavesurfer =
                         IF preserveAudio /\ S.audioBlob # NullBlob /\ S.wavesurfer = "ready"
                           THEN "ready" ELSE "notReady",
                       !.wsLoading = IF empties THEN FALSE ELSE @]
    ELSE S

ResetVideoResources(S) ==
  LET b == S.bufferSourceNodeForVideo
      d == S.destinationNodeForVideo
      c == S.audioContextForVideo
      a == S.canvasAnimationId
      E1 == IF b # 0
              THEN [Released(S.exports, b, "src") EXCEPT
                      ![b].src = IF @ = "playing" THEN "finishing" ELSE @]
              ELSE S.exports
      E2 == IF d # 0 THEN [Released(E1, d, "dst") EXCEPT ![d].dst = "disconnected"] ELSE E1
      closing == c # 0 /\ E2[c].ctx # "closed"
      E3 == IF closing
              THEN [Released(E2, c, "ctx") EXCEPT ![c].ctx = "closing", ![c].ctxThen = TRUE]
              ELSE E2
      E4 == IF a # 0 THEN [Released(E3, a, "loop") EXCEPT ![a].loop = "cancelled"] ELSE E3
  IN  [S EXCEPT !.exports = E4,
                !.bufferSourceNodeForVideo = 0,
                !.destinationNodeForVideo = 0,
                !.audioContextForVideo = IF closing THEN c ELSE 0,
                !.canvasAnimationId = 0]

ResetApp(S, preserveAudio) ==
  LET S1 == ResetRecording(S)
      S2 == ResetData(S1, preserveAudio)
      S3 == ResetWaveSurfer(S2, preserveAudio)
      S4 == ResetVideoResources(S3)
      S5 == ShowStatus(S4, "Application reset")
  IN  UpdateButtonStates(S5, IF S5.audioBlob # NullBlob /\ preserveAudio THEN "recorded" ELSE "idle")

\* ---------------------------------------------------------- startRecording
\* A find that returns the last supported entry of the list.
FindLast(list, supported) ==
  IF \E i \in 1..Len(list) : list[i] \in supported
    THEN list[CHOOSE i \in 1..Len(list) :
                /\ list[i] \in supported
                /\ \A k \in (i+1)..Len(list) : list[k] \notin supported]
    ELSE ""

\* Array.prototype.find over a ranked list with MediaRecorder.isTypeSupported.
Find(list, supported) ==
  IF \E i \in 1..Len(list) : list[i] \in supported
    THEN list[CHOOSE i \in 1..Len(list) :
                /\ list[i] \in supported
                /\ \A k \in 1..(i-1) : list[k] \notin supported]
    ELSE ""

\* startRecording up to its await: the guard, the full reset, the flag.
StartRecordingAccepted(S) ==
  LET S1 == ResetApp(S, FALSE)
  IN  [S1 EXCEPT !.isRecording = TRUE, !.pendingMic = @ + 1]

StartRecordingRejected(S) == ShowStatus(S, "Cannot start recording")

\* startRecording without its guard.
StartRecordingUnguarded(S) == StartRecordingAccepted(S)

\* startRecording from the click to its return or its await.
StartRecording(S) ==
  IF S.isRecording \/ S.isProcessingStop
    THEN StartRecordingRejected(S) ELSE StartRecordingAccepted(S)

\* The catch of await getUserMedia.
MicrophoneDenied(S) ==
  UpdateButtonStates([S EXCEPT !.isRecording = FALSE, !.pendingMic = @ - 1], "idle")

\* The reference dropped with the tracks left running.
StopStreamLeak(S) == [S EXCEPT !.stream = 0]

\* The stream's tracks are stopped and the reference dropped.
StopStream(S) == [S EXCEPT !.micLive = @ \ {S.stream}, !.stream = 0]

\* SpeechRecognition.start(): throws InvalidStateError unless the engine is idle.
SrStart(e) == IF e = "idle" THEN "listening" ELSE e

\* startRecording after getUserMedia resolved with stream k.  ctorOk and
\* startOk are the host's answers to new MediaRecorder and mediaRecorder.start().
StartRecordingResumed(S, k, ctorOk, startOk) ==
  LET S1 == [S EXCEPT !.pendingMic = @ - 1, !.nStarts = k,
                      !.stream = k, !.micLive = @ \cup {k},
                      !.supportedAudioType = Find(mimeTypes, S.typesSupported)]
      abort == UpdateButtonStates([StopStream(S1) EXCEPT !.isRecording = FALSE], "idle")
      S2 == [S1 EXCEPT !.mediaRecorder = k,
                       !.recorders[k] = [NoRecorder EXCEPT !.st = "inactive"]]
      S3 == IF S2.hasSpeechRecognition
              THEN [S2 EXCEPT !.recognition = "object",
                              !.sr = IF RecognitionStateAttr # "recognizing"
                                       THEN SrStart(@) ELSE @]
              ELSE S2
      started == UpdateButtonStates([S3 EXCEPT !.recorders[k].st = "recording"], "recording")
      failed == LET F1 == StopStream(S3)
                    F2 == IF F1.recognition # NULL THEN [F1 EXCEPT !.sr = SrAbort(@)] ELSE F1
                IN  UpdateButtonStates([F2 EXCEPT !.isRecording = FALSE], "idle")
  IN  IF S1.supportedAudioType = "" THEN abort
      ELSE IF ~ctorOk THEN abort
      ELSE IF startOk THEN started ELSE failed

\* ----------------------------------------------------------- stopRecording
\* stopRecording that marks the stop but never asks the encoder to stop.
StopRecordingWithoutEncoderStop(S) ==
  IF ~S.isRecording \/ S.isProcessingStop THEN S
  ELSE
    LET S1 == [S EXCEPT !.isProcessingStop = TRUE]
        S2 == ShowStatus(UpdateButtonStates(S1, "processing"), "Stopping recording")
        mr == S2.mediaRecorder
    IN  IF mr # 0 /\ S2.recorders[mr].st = "recording" THEN S2 ELSE ResetApp(S2, FALSE)

StopRecording(S) ==
  IF ~S.isRecording \/ S.isProcessingStop THEN S
  ELSE
    LET S1 == [S EXCEPT !.isProcessingStop = TRUE]
        S2 == ShowStatus(UpdateButtonStates(S1, "processing"), "Stopping recording")
        S3 == IF /\ S2.hasSpeechRecognition /\ S2.recognition # NULL
                 /\ RecognitionStateAttr = "recognizing"
                THEN [S2 EXCEPT !.sr = SrAbort(@)] ELSE S2
        mr == S3.mediaRecorder
    IN  IF mr # 0 /\ S3.recorders[mr].st = "recording"
          THEN [S3 EXCEPT !.recorders = RecorderStopCall(@, mr)]
          ELSE ResetApp(S3, FALSE)

\* ------------------------------------------- mediaRecorder event handlers
OnDataAvailable(S, size) ==
  IF size > 0 THEN [S EXCEPT !.audioChunks = Append(@, size)] ELSE S

TooSmallNever(blob) == FALSE

TooSmall(blob) == blob.size < MIN_RECORDING_BLOB_SIZE

\* The artifact is handed to the waveform collaborator, or declared recorded.
ProcessAudioBlob(S, loadOk) ==
  IF S.wavesurfer # NULL
    THEN LET P == ShowStatus(UpdateButtonStates(S, "processing"), "Processing waveform")
         IN  IF loadOk THEN [P EXCEPT !.wsLoading = TRUE]
             ELSE ResetApp([P EXCEPT !.wavesurfer = NULL], TRUE)
    ELSE LET R == ShowStatus(UpdateButtonStates(S, "recorded"), "Audio recorded")
         IN  [R EXCEPT !.ui.readOnly = FALSE]

OnStopPreserving(S, loadOk) ==
  LET S1 == StopStream([S EXCEPT !.isRecording = FALSE, !.isProcessingStop = FALSE])
      blob == Blob(S1.audioChunks, S1.supportedAudioType)
      S2 == [S1 EXCEPT !.audioBlob = blob, !.audioChunks = << >>]
  IN  IF Len(S1.audioChunks) = 0
        THEN ResetApp(ShowStatus(S1, "No audio data"), TRUE)
      ELSE IF TooSmall(blob) THEN ResetApp(ShowStatus(S2, "Recording too short"), FALSE)
      ELSE ProcessAudioBlob(S2, loadOk)

OnStop(S, loadOk) ==
  LET S1 == StopStream([S EXCEPT !.isRecording = FALSE, !.isProcessingStop = FALSE])
      blob == Blob(S1.audioChunks, S1.supportedAudioType)
      S2 == [S1 EXCEPT !.audioBlob = blob, !.audioChunks = << >>]
  IN  IF Len(S1.audioChunks) = 0
        THEN ResetApp(ShowStatus(S1, "No audio data"), FALSE)
      ELSE IF TooSmall(blob) THEN ResetApp(ShowStatus(S2, "Recording too short"), FALSE)
      ELSE ProcessAudioBlob(S2, loadOk)

OnError(S) == [ShowStatus(S, "Recording Error") EXCEPT !.errTimers = @ + 1]

\* The grace timer resetting whatever it finds.
OnErrorTimeoutAlways(S) == ResetApp([S EXCEPT !.errTimers = @ - 1], FALSE)

\* The grace timer armed by mediaRecorder.onerror.
OnErrorTimeout(S) ==
  LET S1 == [S EXCEPT !.errTimers = @ - 1]
  IN  IF S1.isRecording \/ S1.isProcessingStop THEN ResetApp(S1, FALSE) ELSE S1

\* --------------------------------------------- recognition event handlers
\* One recognition result event: event.results from event.resultIndex on.
ResultEvents ==
  { << [transcript |-> << "a" >>, isFinal |-> TRUE] >>,
    << [transcript |-> << " ", "a" >>, isFinal |-> FALSE] >>,
    << [transcript |-> << "a", " " >>, isFinal |-> TRUE],
       [transcript |-> << "a" >>, isFinal |-> FALSE] >> }

RECURSIVE CurrentFinal(_)
CurrentFinal(results) ==
  IF results = << >> THEN << >>
  ELSE (IF Head(results).isFinal THEN Trim(Head(results).transcript) \o << " " >> ELSE << >>)
       \o CurrentFinal(Tail(results))

RECURSIVE Interim(_)
Interim(results) ==
  IF results = << >> THEN << >>
  ELSE (IF Head(results).isFinal THEN << >> ELSE Head(results).transcript)
       \o Interim(Tail(results))

\* recognition.onresult that rewrites the finalized text with the newest
\* finalized segments instead of appending them.
RecognitionOnResultRevising(S, results) ==
  LET S1 == [S EXCEPT !.finalTranscript =
                        IF CurrentFinal(results) # << >> THEN CurrentFinal(results) ELSE @]
  IN  [S1 EXCEPT !.subtitle = Trim(S1.finalTranscript \o Interim(results))]

RecognitionOnResult(S, results) ==
  LET S1 == [S EXCEPT !.finalTranscript = @ \o CurrentFinal(results)]
  IN  [S1 EXCEPT !.subtitle = Trim(S1.finalTranscript \o Interim(results))]

TransientErrors == {"no-speech", "aborted", "audio-capture"}

\* recognition.onerror that gives the recording up on a fatal error.
RecognitionOnErrorAborting(S, code) ==
  IF code \notin TransientErrors THEN ResetApp(ShowStatus(S, "Speech Rec Error"), FALSE) ELSE S

RecognitionOnError(S, code) ==
  IF code \notin TransientErrors THEN ShowStatus(S, "Speech Rec Error") ELSE S

RecognitionOnEnd(S) == [S EXCEPT !.subtitle = Trim(S.finalTranscript)]

\* ------------------------------------------------ wavesurfer event handlers
WaveSurferOnReady(S) ==
  LET S1 == [S EXCEPT !.wavesurfer = "ready", !.ui.readOnly = FALSE]
  IN  ShowStatus(UpdateButtonStates(S1, "recorded"), "Audio processed")

WaveSurferOnError(S) ==
  ResetApp([ShowStatus(S, "Waveform Error") EXCEPT !.wavesurfer = NULL], TRUE)

\* ------------------------------------------------------- button handlers
ResetBtnClick(S) == ResetApp(S, FALSE)

\* The clear handler erasing the visible text only.
ClearUIBtnClickVisibleOnly(S) ==
  LET S1 == [S EXCEPT !.subtitle = << >>]
  IN  ShowStatus(UpdateButtonStates(S1, IF S1.audioBlob # NullBlob THEN "recorded" ELSE "idle"),
                 "Transcription cleared")

ClearUIBtnClick(S) ==
  LET S1 == [S EXCEPT !.subtitle = << >>, !.finalTranscript = << >>]
  IN  ShowStatus(UpdateButtonStates(S1, IF S1.audioBlob # NullBlob THEN "recorded" ELSE "idle"),
                 "Transcription cleared")

\* ------------------------------------------------------------ generateVideo
VideoFragSizes == {0, 40, 300}

\* if (canvasAnimationId) cancelAnimationFrame(canvasAnimationId); canvasAnimationId = null;
\* The clean-up that leaves the redraw loop running.
CancelAnimationNever(S) == S

CancelAnimation(S) ==
  LET a == S.canvasAnimationId
  IN  IF a # 0
        THEN [S EXCEPT !.exports = [Released(@, a, "loop") EXCEPT ![a].loop = "cancelled"],
                       !.canvasAnimationId = 0]
        ELSE S

\* canvasStream / combinedStream .getTracks().forEach(track => track.stop()) of run j.
StopTracksNever(S, j) == S

StopTracks(S, j) ==
  IF S.exports[j].cstream # "none"
    THEN [S EXCEPT !.exports = [Released(@, j, "cs") EXCEPT ![j].cstream = "stopped"]]
    ELSE S

\* The Web Audio clean-up every exit of generateVideo repeats: disconnect and
\* stop the source node, disconnect the destination node, close the context
\* unless closed, and clear the three references.
CleanUpAudio(S) ==
  LET b == S.bufferSourceNodeForVideo
      d == S.destinationNodeForVideo
      c == S.audioContextForVideo
      E1 == IF b # 0
              THEN [Released(S.exports, b, "src") EXCEPT
                      ![b].src = IF @ = "playing" THEN "finishing" ELSE @]
              ELSE S.exports
      E2 == IF d # 0 THEN [Released(E1, d, "dst") EXCEPT ![d].dst = "disconnected"] ELSE E1
      E3 == IF c # 0 /\ E2[c].ctx # "closed"
              THEN [Released(E2, c, "ctx") EXCEPT ![c].ctx = "closing"]
              ELSE E2
  IN  [S EXCEPT !.exports = E3, !.audioContextForVideo = 0,
                !.bufferSourceNodeForVideo = 0, !.destinationNodeForVideo = 0]

\* An exit of run j: the outcome joins those the run has reported and the UI
\* returns to recorded.
\* An exit that consumes the artifact it exported.
FinishConsuming(S, j, outcome) ==
  UpdateButtonStates([S EXCEPT !.exports[j].pc = "done",
                               !.exports[j].outcome = Append(@, outcome),
                               !.audioBlob = NullBlob],
                     "recorded")

Finish(S, j, outcome) ==
  UpdateButtonStates([S EXCEPT !.exports[j].pc = "done",
                               !.exports[j].outcome = Append(@, outcome)],
                     "recorded")

\* The pre-generation checks: the reason for refusing, or "ok".
PreCheckNoTrim(S) ==
  IF S.audioBlob = NullBlob THEN "NoAudio"
  ELSE IF S.subtitle = << >> THEN "EmptyTranscript"
  ELSE IF ~S.hasCanvasCaptureStream \/ ~S.hasAudioContext THEN "UnsupportedEnvironment"
  ELSE "ok"

PreCheck(S) ==
  IF S.audioBlob = NullBlob THEN "NoAudio"
  ELSE IF Trim(S.subtitle) = << >> THEN "EmptyTranscript"
  ELSE IF ~S.hasCanvasCaptureStream \/ ~S.hasAudioContext THEN "UnsupportedEnvironment"
  ELSE "ok"

\* new AudioContext, createMediaStreamDestination, then the awaits of
\* audioBlob.arrayBuffer() and decodeAudioData.
CreateAudioContext(S, j) ==
  [S EXCEPT !.audioContextForVideo = j, !.destinationNodeForVideo = j,
            !.exports[j].ctx = "running", !.exports[j].dst = "connected",
            !.exports[j].pc = "awaitDecode", !.exports[j].waitCtx = 0]

\* generateVideo from the click to its first await, as run j.  captureOk is
\* the host's answer to canvas.captureStream (a stream with a video track).
GenerateVideo(S, j, captureOk) ==
  IF PreCheck(S) # "ok" THEN ShowStatus(S, PreCheck(S))
  ELSE
    LET S1 == ShowStatus(UpdateButtonStates(S, "processing"), "Generating video")
        S2 == [S1 EXCEPT !.nExports = @ + 1, !.canvasAnimationId = j,
                         !.exports[j] = [NoExport EXCEPT !.pc = "start", !.loop = "running"]]
        c == S2.audioContextForVideo
    IN  IF ~captureOk
          THEN Finish(StopTracks(CancelAnimation(
                        ShowStatus(S2, "CaptureUnavailable")), j), j, "CaptureUnavailable")
        ELSE
          LET S3 == [S2 EXCEPT !.exports[j].cstream = "live"]
          IN  IF c # 0 /\ S3.exports[c].ctx # "closed"
                THEN [S3 EXCEPT !.exports = [Released(@, c, "ctx") EXCEPT
                                               ![c].ctx = "closing",
                                               ![j].pc = "awaitClose", ![j].waitCtx = c]]
                ELSE CreateAudioContext(S3, j)

\* The catch of the audio set-up (decode failure, or a reference gone).
AudioSetupFailed(S, j) ==
  Finish(CleanUpAudio(StopTracks(CancelAnimation(
           ShowStatus(S, "AudioDecodeFailed")), j)), j, "AudioDecodeFailed")

\* The export encoder's stop(): inactive at once, final fragment and stop queued.
VideoRecorderStopCall(E, j) ==
  [E EXCEPT ![j].vrec = "inactive", ![j].pendStop = TRUE]

\* generateVideo after the decode settled.  decodeOk, ctorOk, startOk are the
\* host's answers to decodeAudioData, new MediaRecorder and videoRecorder.start().
GenerateVideoResumed(S, j, decodeOk, ctorOk, startOk) ==
  IF ~decodeOk \/ S.audioContextForVideo = 0 THEN AudioSetupFailed(S, j)
  ELSE
    LET S1 == [S EXCEPT !.bufferSourceNodeForVideo = j, !.exports[j].src = "created"]
        videoMimeType ==
          IF Find(preferredVideoMimeTypes, S.typesSupported) # ""
            THEN Find(preferredVideoMimeTypes, S.typesSupported) ELSE "video/webm"
        cleaned(T, why) ==
          Finish(CleanUpAudio(StopTracks(CancelAnimation(ShowStatus(T, why)), j)), j, why)
    IN  IF ~ctorOk \/ videoMimeType \notin S.typesSupported THEN cleaned(S1, "SetupError")
        ELSE
          LET S2 == [S1 EXCEPT !.exports[j].vrec = "inactive",
                               !.exports[j].src = "playing"]
          IN  IF ~startOk THEN cleaned(S2, "StartError")
              ELSE [S2 EXCEPT !.exports[j].vrec = "recording",
                              !.exports[j].timer = TRUE,
                              !.exports[j].pc = "encoding"]

\* ------------------------------------------- videoRecorder event handlers
VideoOnDataAvailable(S, j, size) ==
  IF size > 0 THEN [S EXCEPT !.exports[j].videoChunks = Append(@, size)] ELSE S

\* downloadBlob(blob, filename) of run j.
DownloadBlob(S, j, blob) ==
  ShowStatus([S EXCEPT !.exports[j].downloads = Append(@, blob)], "Download started")

VideoOnStop(S, j) ==
  LET S1 == CleanUpAudio(StopTracks(CancelAnimation(S), j))
      chunks == S1.exports[j].videoChunks
      videoMimeType ==
        IF Find(preferredVideoMimeTypes, S.typesSupported) # ""
          THEN Find(preferredVideoMimeTypes, S.typesSupported) ELSE "video/webm"
  IN  IF Len(chunks) = 0
        THEN Finish(ShowStatus(S1, "EmptyOutput"), j, "EmptyOutput")
        ELSE Finish(DownloadBlob(S1, j, Blob(chunks, videoMimeType)), j, "success")

VideoOnError(S, j) ==
  Finish(CleanUpAudio(StopTracks(CancelAnimation(
           ShowStatus(S, "Video Generation Error")), j)), j, "EncoderError")

\* The shared body without its state test: stop() is called whatever the
\* recorder's state.
StopUnguarded(S, j) == [S EXCEPT !.exports = VideoRecorderStopCall(@, j)]

\* if (videoRecorder && videoRecorder.state === "recording") videoRecorder.stop();
\* the body shared by bufferSourceNodeForVideo.onended and the stop timeout.
StopIfRecording(S, j) ==
  IF S.exports[j].vrec = "recording"
    THEN [S EXCEPT !.exports = VideoRecorderStopCall(@, j)]
    ELSE S

SourceOnEnded(S, j) == StopIfRecording([S EXCEPT !.exports[j].src = "done"], j)

StopTimeoutNever(S, j) == [S EXCEPT !.exports[j].timer = FALSE]

StopTimeout(S, j) == StopIfRecording([S EXCEPT !.exports[j].timer = FALSE], j)

\* The AudioContext of run c finished closing.  The reactions to its close()
\* promises run: the then-callback resetApp attached clears the reference, and
\* a generateVideo that awaits the close goes on to create its own context.
ContextClosed(S, c) ==
  LET S1 == [S EXCEPT !.exports[c].ctx = "closed", !.exports[c].ctxThen = FALSE]
      S2 == IF S.exports[c].ctxThen THEN [S1 EXCEPT !.audioContextForVideo = 0] ELSE S1
      waiting == {j \in 1..MaxExports :
                    S2.exports[j].pc = "awaitClose" /\ S2.exports[j].waitCtx = c}
  IN  IF waiting = {} THEN S2
      ELSE CreateAudioContext(S2, CHOOSE j \in waiting : \A k \in waiting : j <= k)

\* --------------------------------------------------------- drawWrappedText
\* String.prototype.split(" ")
RECURSIVE Split(_)
Split(s) ==
  IF \A i \in 1..Len(s) : s[i] # " " THEN << s >>
  ELSE LET k == CHOOSE i \in 1..Len(s) : s[i] = " " /\ \A h \in 1..(i - 1) : s[h] # " "
       IN  << SubSeq(s, 1, k - 1) >> \o Split(SubSeq(s, k + 1, Len(s)))

\* context.measureText(s).width under the measure m, which gives every
\* letter the advance m.a and every space the advance m.sp.
RECURSIVE Width(_, _)
Width(s, m) ==
  IF s = << >> THEN 0
  ELSE (IF Head(s) = " " THEN m.sp ELSE m.a) + Width(Tail(s), m)

\* The width measures: advances of a letter and of a space.
Measures == [a : {1, 2}, sp : {0, 1}]

\* The test of a wrap that never breaks a line.
FitsAlways(testLine, m, textMaxWidth) == TRUE

\* !(testWidth > textMaxWidth)
Fits(testLine, m, textMaxWidth) == ~(Width(testLine, m) > textMaxWidth)

\* The for loop from index n (0-based) with the locals line and lines; its
\* value is the locals after the last iteration.
RECURSIVE WrapLoop(_, _, _, _, _, _)
WrapLoop(words, n, line, lines, m, textMaxWidth) ==
  IF ~(n < Len(words)) THEN [line |-> line, lines |-> lines]
  ELSE
    LET word == words[n + 1]
        sep == IF n < Len(words) - 1 THEN << " " >> ELSE << >>
        testLine == line \o word \o sep
    IN  IF ~Fits(testLine, m, textMaxWidth) /\ n > 0
          THEN WrapLoop(words, n + 1, word \o sep, Append(lines, Trim(line)), m, textMaxWidth)
          ELSE WrapLoop(words, n + 1, testLine, lines, m, textMaxWidth)

\* The lines drawWrappedText hands to fillText, top to bottom.
DrawWrappedText(text, m, textMaxWidth) ==
  LET r == WrapLoop(Split(text), 0, << >>, << >>, m, textMaxWidth)
  IN  IF Trim(r.line) # << >> THEN Append(r.lines, Trim(r.line)) ELSE r.lines

\* The transcripts generateVideo hands over: subtitle.value.trim(), not empty.
Transcripts ==
  { t \in UNION { [1..n -> Chars] : n \in 1..MaxWrapText } : Trim(t) = t }

\* No call of drawWrappedText is under study.
NoWrap ==
  [ text |-> << >>, measure |-> [a |-> 1, sp |-> 1], textMaxWidth |-> 1,
    lines |-> << >>, drawn |-> FALSE ]

\* --------------------------------------------------------- session state
\* The session state of the specification is the state the script last handed
\* to updateButtonStates.  The script has one name, "processing", for two of
\* them: it is exporting while a run of generateVideo is in flight, and
\* otherwise the end of a recording (the stop was accepted, or the artifact
\* waits for the waveform collaborator's answer).
ExportActive(S) ==
  \E j \in 1..MaxExports : S.exports[j].pc \in {"awaitClose", "awaitDecode", "encoding"}

SessionStateOf(S) ==
  IF S.ui.state = "processing"
    THEN IF ExportActive(S) THEN "exporting" ELSE "stopping"
    ELSE S.ui.state

SessionState == SessionStateOf(Cur)

\* ------------------------------------------------------------------- Init
\* The state DOMContentLoaded leaves: initializeWaveSurfer(), resetApp(false).
Blank ==
  [ isRecording |-> FALSE, isProcessingStop |-> FALSE, mediaRecorder |-> 0,
    audioChunks |-> << >>, recognition |-> NULL, finalTranscript |-> << >>,
    stream |-> 0, audioBlob |-> NullBlob, supportedAudioType |-> "", wavesurfer |-> NULL,
    audioContextForVideo |-> 0, bufferSourceNodeForVideo |-> 0,
    destinationNodeForVideo |-> 0, canvasAnimationId |-> 0,
    subtitle |-> << >>,
    ui |-> [ state |-> "idle", startDisabled |-> FALSE, stopDisabled |-> FALSE,
             resetDisabled |-> TRUE, clearDisabled |-> TRUE, videoDisabled |-> TRUE,
             readOnly |-> FALSE ],
    status |-> "",
    hasSpeechRecognition |-> FALSE, hasCanvasCaptureStream |-> FALSE,
    hasAudioContext |-> FALSE, typesSupported |-> {},
    recorders |-> [i \in 1..MaxRecordings |-> NoRecorder], micLive |-> {},
    pendingMic |-> 0, nStarts |-> 0, sr |-> "idle", wsLoading |-> FALSE,
    errTimers |-> 0, exports |-> [j \in 1..MaxExports |-> NoExport], nExports |-> 0,
    shown |-> << >> ]

Init ==
  \E h \in Hosts :
    /\ SetInit(ResetApp([Blank EXCEPT !.hasSpeechRecognition = h.speech,
                                   !.wavesurfer = IF h.ws THEN "notReady" ELSE NULL,
                                   !.hasCanvasCaptureStream = h.capture,
                                   !.hasAudioContext = h.audioCtx,
                                   !.typesSupported = h.types], FALSE))
    /\ wrap = NoWrap

\* ---------------------------------------------------------------- actions
\* A click reaches its handler only while the button is enabled.

\* startBtn click -> startRecording (to its await).
StartClick ==
  /\ ~ui.startDisabled
  /\ (isRecording \/ isProcessingStop) \/ (nStarts < MaxRecordings /\ pendingMic < MaxPending)
  /\ Set(StartRecording(Cur))

\* getUserMedia rejects.
MicDenied ==
  /\ pendingMic > 0
  /\ Set(MicrophoneDenied(Cur))

\* getUserMedia resolves; startRecording runs to its end.
MicGranted ==
  /\ pendingMic > 0 /\ nStarts < MaxRecordings
  /\ \E ctorOk \in BOOLEAN, startOk \in BOOLEAN :
       Set(StartRecordingResumed(Cur, nStarts + 1, ctorOk, startOk))

\* stopBtn click -> stopRecording.
StopClick ==
  /\ ~ui.stopDisabled
  /\ Set(StopRecording(Cur))

\* The handlers one event of recorder i runs, with the record of what the
\* recorder has delivered.
Fragment(S, i, size) ==
  [OnDataAvailable(S, size) EXCEPT !.recorders[i].delivered = Append(@, size)]

Stopped(S, i, loadOk) ==
  OnStop([S EXCEPT !.recorders[i].pendStop = FALSE, !.recorders[i].delivered = << >>],
         loadOk)

\* The audio encoder hands a fragment to ondataavailable while recording.
AudioFragment(i) ==
  /\ recorders[i].st = "recording"
  /\ Len(recorders[i].delivered) < MaxChunks
  /\ \E size \in FragSizes : Set(Fragment(Cur, i, size))

\* The task stop() queued: the final fragment, then the stop event.
AudioStopped(i) ==
  /\ recorders[i].pendStop
  /\ \E size \in FragSizes, loadOk \in BOOLEAN :
       Set(Stopped(Fragment(Cur, i, size), i, loadOk))

\* The audio encoder fails while recording: in one task the recorder becomes
\* inactive and fires error, the final fragment, and stop.
AudioFailed(i) ==
  /\ recorders[i].st = "recording"
  /\ \E size \in FragSizes, loadOk \in BOOLEAN :
       Set(Stopped(Fragment(OnError([Cur EXCEPT !.recorders = RecorderStopCall(@, i)]),
                            i, size), i, loadOk))

\* The grace timer of mediaRecorder.onerror fires.
ErrorTimerFired ==
  /\ errTimers > 0
  /\ Set(OnErrorTimeout(Cur))

\* The recognition engine delivers results while it listens.
SrResult ==
  /\ sr = "listening"
  /\ \E results \in ResultEvents :
       /\ Len(finalTranscript \o CurrentFinal(results)) <= MaxText
       /\ Set(RecognitionOnResult(Cur, results))

\* The recognition engine reports an error; it then ends.
SrError ==
  /\ sr = "listening"
  /\ \E code \in {"no-speech", "network"} :
       Set([RecognitionOnError(Cur, code) EXCEPT !.sr = "ending"])

\* The recognition engine ends (aborted, after an error, or by itself).
SrEnd ==
  /\ sr \in {"listening", "ending"}
  /\ Set([RecognitionOnEnd(Cur) EXCEPT !.sr = "idle"])

\* The waveform collaborator answers a load.
WsReady ==
  /\ wsLoading /\ wavesurfer # NULL
  /\ Set(WaveSurferOnReady([Cur EXCEPT !.wsLoading = FALSE]))

WsError ==
  /\ wsLoading /\ wavesurfer # NULL
  /\ Set(WaveSurferOnError([Cur EXCEPT !.wsLoading = FALSE]))

\* resetBtn click (confirmed).
ResetClick ==
  /\ ~ui.resetDisabled
  /\ Set(ResetBtnClick(Cur))

\* clearUIBtn click (confirmed).
ClearClick ==
  /\ ~ui.clearDisabled
  /\ Set(ClearUIBtnClick(Cur))

\* The user edits the transcript box.
EditSubtitle ==
  /\ ~ui.readOnly
  /\ \E t \in UserTexts :
       /\ t # subtitle
       /\ Set([Cur EXCEPT !.subtitle = t])

\* videoBtn click -> generateVideo (to its first await).
VideoClick ==
  /\ ~ui.videoDisabled
  /\ PreCheck(Cur) = "ok" => nExports < MaxExports
  /\ \E captureOk \in BOOLEAN : Set(GenerateVideo(Cur, nExports + 1, captureOk))

\* arrayBuffer() and decodeAudioData settle; generateVideo runs to its end.
DecodeSettled(j) ==
  /\ exports[j].pc = "awaitDecode"
  /\ \E decodeOk \in BOOLEAN, ctorOk \in BOOLEAN, startOk \in BOOLEAN :
       Set(GenerateVideoResumed(Cur, j, decodeOk, ctorOk, startOk))

\* The export encoder hands a fragment to videoRecorder.ondataavailable
\* while recording.
VideoFragment(j) ==
  /\ exports[j].vrec = "recording"
  /\ Len(exports[j].videoChunks) < MaxVideoChunks
  /\ \E size \in VideoFragSizes : Set(VideoOnDataAvailable(Cur, j, size))

\* The task stop() queued: the final fragment, then the stop event.
VideoStopped(j) ==
  /\ exports[j].pendStop
  /\ \E size \in VideoFragSizes :
       Set(VideoOnStop(VideoOnDataAvailable([Cur EXCEPT !.exports[j].pendStop = FALSE],
                                            j, size), j))

\* The export encoder fails while recording: in one task the recorder becomes
\* inactive and fires error, the final fragment, and stop.
VideoFailed(j) ==
  /\ exports[j].vrec = "recording"
  /\ \E size \in VideoFragSizes :
       Set(VideoOnStop(VideoOnDataAvailable(
             VideoOnError([Cur EXCEPT !.exports[j].vrec = "inactive"], j), j, size), j))

\* The source node's ended event (played to its end, or stopped).
SourceEnded(j) ==
  /\ exports[j].src \in {"playing", "finishing"}
  /\ Set(SourceOnEnded(Cur, j))

\* The stop timeout of run j fires.
StopTimerFired(j) ==
  /\ exports[j].timer
  /\ Set(StopTimeout(Cur, j))

\* An AudioContext finishes closing.
AudioContextClosed(c) ==
  /\ exports[c].ctx = "closing"
  /\ Set(ContextClosed(Cur, c))

Next ==
  \/ StartClick
  \/ MicDenied
  \/ MicGranted
  \/ StopClick
  \/ \E i \in 1..MaxRecordings : AudioFragment(i)
  \/ \E i \in 1..MaxRecordings : AudioStopped(i)
  \/ \E i \in 1..MaxRecordings : AudioFailed(i)
  \/ ErrorTimerFired
  \/ SrResult
  \/ SrError
  \/ SrEnd
  \/ WsReady
  \/ WsError
  \/ ResetClick
  \/ ClearClick
  \/ EditSubtitle
  \/ VideoClick
  \/ \E j \in 1..MaxExports : DecodeSettled(j)
  \/ \E j \in 1..MaxExports : VideoFragment(j)
  \/ \E j \in 1..MaxExports : VideoStopped(j)
  \/ \E j \in 1..MaxExports : VideoFailed(j)
  \/ \E j \in 1..MaxExports : SourceEnded(j)
  \/ \E j \in 1..MaxExports : StopTimerFired(j)
  \/ \E c \in 1..MaxExports : AudioContextClosed(c)

Spec == Init /\ [][Next]_vars

\* A host that offers neither SpeechRecognition nor WaveSurfer, and offers
\* canvas capture, AudioContext and the mp4 types: the recognition and waveform
\* events cannot occur on it.
InitPlainHost ==
  /\ Init
  /\ ~hasSpeechRecognition /\ wavesurfer = NULL
  /\ hasCanvasCaptureStream /\ hasAudioContext

NextPlainHost ==
  \/ StartClick
  \/ MicDenied
  \/ MicGranted
  \/ StopClick
  \/ \E i \in 1..MaxRecordings : AudioFragment(i)
  \/ \E i \in 1..MaxRecordings : AudioStopped(i)
  \/ \E i \in 1..MaxRecordings : AudioFailed(i)
  \/ ErrorTimerFired
  \/ ResetClick
  \/ ClearClick
  \/ EditSubtitle
  \/ VideoClick
  \/ \E j \in 1..MaxExports : DecodeSettled(j)
  \/ \E j \in 1..MaxExports : VideoFragment(j)
  \/ \E j \in 1..MaxExports : VideoStopped(j)
  \/ \E j \in 1..MaxExports : VideoFailed(j)
  \/ \E j \in 1..MaxExports : SourceEnded(j)
  \/ \E j \in 1..MaxExports : StopTimerFired(j)
  \/ \E c \in 1..MaxExports : AudioContextClosed(c)

\* The host runs a timer's callback once the timer is due, and runs the task
\* a recorder's stop() queued.  Nothing makes a source node's ended event
\* arrive, so none is assumed.
FairSpec ==
  /\ InitPlainHost /\ [][NextPlainHost]_vars
  /\ \A j \in 1..MaxExports : WF_vars(StopTimerFired(j))
  /\ \A j \in 1..MaxExports : WF_vars(VideoStopped(j))

\* A host that offers WaveSurfer and the webm types but no SpeechRecognition,
\* canvas capture or AudioContext: a recording ends in the hands of the
\* waveform collaborator, and the recognition and export events cannot occur.
InitWaveformHost ==
  /\ SetInit(ResetApp([Blank EXCEPT !.wavesurfer = "notReady",
                                    !.typesSupported = WebmTypes], FALSE))
  /\ wrap = NoWrap

NextWaveformHost ==
  \/ StartClick
  \/ MicDenied
  \/ MicGranted
  \/ StopClick
  \/ \E i \in 1..MaxRecordings : AudioFragment(i)
  \/ \E i \in 1..MaxRecordings : AudioStopped(i)
  \/ \E i \in 1..MaxRecordings : AudioFailed(i)
  \/ ErrorTimerFired
  \/ WsReady
  \/ WsError
  \/ ResetClick
  \/ ClearClick
  \/ EditSubtitle

\* The host runs the task a recorder's stop() queued, and the waveform
\* collaborator answers every load with its ready or its error event.
StopFairSpec ==
  /\ InitWaveformHost /\ [][NextWaveformHost]_vars
  /\ \A i \in 1..MaxRecordings : WF_vars(AudioStopped(i))
  /\ WF_vars(WsReady \/ WsError)

\* ------------------------------------------- drawWrappedText on its own
\* One call of drawWrappedText: any transcript, width measure and max
\* content width, the rest of the page as it is after loading.
WrapInit ==
  /\ SetInit(ResetApp(Blank, FALSE))
  /\ wrap \in [ text : Transcripts, measure : Measures,
                textMaxWidth : 1..MaxLineWidth, lines : {<< >>}, drawn : {FALSE} ]

\* animateCanvas calls drawWrappedText on the transcript.
DrawText ==
  /\ ~wrap.drawn
  /\ wrap' = [wrap EXCEPT !.lines = DrawWrappedText(wrap.text, wrap.measure, wrap.textMaxWidth),
                          !.drawn = TRUE]
  /\ UNCHANGED progVars

WrapNext == DrawText

WrapSpec == WrapInit /\ [][WrapNext]_vars

\* ================================================================ properties

\* ------------------------------------------------------------------- C1
C1_Refused(S) == S.audioBlob = NullBlob \/ Trim(S.subtitle) = << >>

C1_Reason(S) == IF S.audioBlob = NullBlob THEN "NoAudio" ELSE "EmptyTranscript"

\* C1: in every reachable state in which the artifact is absent or the trimmed
\* transcript is empty, generateVideo changes nothing but the status line: no
\* run is created (no redraw loop, capture stream, audio context or encoder),
\* session state, artifact and transcript stay as they are, and the message is
\* NoAudio, respectively EmptyTranscript.
C1_RefusedExportIsNoOp ==
  C1_Refused(Cur) =>
    \A captureOk \in BOOLEAN :
      LET T == GenerateVideo(Cur, nExports + 1, captureOk)
      IN  /\ T = [Cur EXCEPT !.status = C1_Reason(Cur), !.shown = << C1_Reason(Cur) >>]
          /\ SessionStateOf(T) = SessionState

\* An export was requested with a blank transcript and was refused.
C1_Witness ==
  /\ shown = << "EmptyTranscript" >>
  /\ audioBlob # NullBlob /\ subtitle = << " " >>
  /\ SessionState = "recorded" /\ nExports = 0

\* ------------------------------------------------------------ C2, C3, C4
\* mediaRecorder.onstop of recorder i is due: the task of a stop() is queued,
\* or the recorder is recording and may fail.
OnStopDue(i) == recorders[i].pendStop \/ recorders[i].st = "recording"

\* The state in which that onstop runs, the final fragment having size bytes.
OnStopEntry(i, size) ==
  IF recorders[i].pendStop THEN Fragment(Cur, i, size)
  ELSE Fragment(OnError([Cur EXCEPT !.recorders = RecorderStopCall(@, i)]), i, size)

KeptFragments(seq) == SelectSeq(seq, LAMBDA x : x > 0)

\* C2: whenever mediaRecorder.onstop runs with fragments whose total size is
\* below MIN_RECORDING_BLOB_SIZE, it leaves no artifact, an empty fragment
\* buffer, and the session in idle.
C2_TooShortDiscarded ==
  \A i \in 1..MaxRecordings, size \in FragSizes, loadOk \in BOOLEAN :
    LET S == OnStopEntry(i, size)
        T == Stopped(S, i, loadOk)
    IN  (/\ OnStopDue(i)
         /\ S.audioChunks # << >>
         /\ SumSeq(S.audioChunks) < MIN_RECORDING_BLOB_SIZE)
        => /\ T.audioBlob = NullBlob
           /\ T.audioChunks = << >>
           /\ SessionStateOf(T) = "idle"

\* A finalize found a too short recording and reset the session.
C2_Witness ==
  /\ shown = << "Recording too short", "Application reset", "Ready" >>
  /\ audioBlob = NullBlob /\ SessionState = "idle"
  /\ \E i \in 1..MaxRecordings : recorders[i].st = "inactive" /\ ~recorders[i].pendStop

\* C3: whenever mediaRecorder.onstop of a recorder runs and the fragments of
\* size > 0 that recorder delivered total at least MIN_RECORDING_BLOB_SIZE, the
\* artifact consists of exactly those fragments in delivery order, its size is
\* their sum, it carries the chosen encoding, and the session is recorded, or
\* is still stopping while the waveform collaborator loads the artifact.
C3_ArtifactIsConcatenation ==
  \A i \in 1..MaxRecordings, size \in FragSizes, loadOk \in BOOLEAN :
    LET S == OnStopEntry(i, size)
        T == Stopped(S, i, loadOk)
        kept == KeptFragments(S.recorders[i].delivered)
    IN  (OnStopDue(i) /\ SumSeq(kept) >= MIN_RECORDING_BLOB_SIZE)
        => /\ T.audioBlob.parts = kept
           /\ T.audioBlob.size = SumSeq(kept)
           /\ T.audioBlob.type = S.supportedAudioType
           /\ T.audioChunks = << >>
           /\ \/ SessionStateOf(T) = "recorded"
              \/ SessionStateOf(T) = "stopping" /\ T.wsLoading

\* Fragments of 60 and 500 bytes were delivered in that order and assembled.
C3_Witness ==
  /\ audioBlob.parts = << 60, 500 >> /\ audioBlob.size = 560
  /\ SessionState = "recorded"
  /\ shown = << "Audio recorded" >>

\* C4: whenever mediaRecorder.onstop runs with an empty fragment buffer, no
\* artifact is created and the session is reset in full: flags, encoder and
\* stream references, fragments, transcript and artifact are cleared, the
\* microphone stream is stopped, and the session is idle.
C4_NoFragmentsResets ==
  \A i \in 1..MaxRecordings, size \in FragSizes, loadOk \in BOOLEAN :
    LET S == OnStopEntry(i, size)
        T == Stopped(S, i, loadOk)
    IN  (OnStopDue(i) /\ S.audioChunks = << >>)
        => /\ T.audioBlob = NullBlob
           /\ ~T.isRecording /\ ~T.isProcessingStop
           /\ T.mediaRecorder = 0 /\ T.stream = 0
           /\ T.audioChunks = << >>
           /\ T.finalTranscript = << >> /\ T.subtitle = << >>
           /\ T.micLive = S.micLive \ {S.stream}
           /\ SessionStateOf(T) = "idle"

\* A recorder stopped without having captured a fragment.
C4_Witness ==
  /\ shown = << "No audio data", "Application reset", "Ready" >>
  /\ audioBlob = NullBlob /\ audioChunks = << >> /\ SessionState = "idle"
  /\ mediaRecorder = 0 /\ stream = 0 /\ micLive = {}

\* ------------------------------------------------------------------- C5
\* The same state, whatever the last handler showed.
Silent(S) == [S EXCEPT !.shown = << >>]

\* C5: in every reachable state, if resetApp is called twice in a row, the
\* second call invokes a release on no handle the first call released, and it
\* leaves the state the first call left.
C5_ResetIdempotent ==
  \A preserveAudio \in BOOLEAN :
    LET T1 == ResetApp(Cur, preserveAudio)
        T2 == ResetApp(T1, preserveAudio)
    IN  /\ ResetReleases(Cur) \cap ResetReleases(T1) = {}
        /\ Silent(T2) = Silent(T1)

\* ------------------------------------------------------------------- C6
\* The states a run of generateVideo that opened resources can end in: after
\* the stop task of its encoder, after the failure task of its encoder, and
\* after a set-up or start failure of the encoder.
ExportEnds(j) ==
  (IF exports[j].pendStop
     THEN {VideoOnStop(VideoOnDataAvailable([Cur EXCEPT !.exports[j].pendStop = FALSE],
                                            j, size), j) : size \in VideoFragSizes}
     ELSE {})
  \cup
  (IF exports[j].vrec = "recording"
     THEN {VideoOnStop(VideoOnDataAvailable(
             VideoOnError([Cur EXCEPT !.exports[j].vrec = "inactive"], j), j, size), j) :
             size \in VideoFragSizes}
     ELSE {})
  \cup
  (IF exports[j].pc = "awaitDecode" /\ audioContextForVideo # 0
     THEN {GenerateVideoResumed(Cur, j, TRUE, ok[1], ok[2]) :
             ok \in {<< FALSE, TRUE >>, << TRUE, FALSE >>}}
     ELSE {})

AllOnce == [loop |-> 1, cs |-> 1, src |-> 1, dst |-> 1, ctx |-> 1]

\* C6: whenever a run that opened resources ends (success, empty output,
\* encoder error, set-up failure, start failure), the redraw loop, the capture
\* stream, the source node, the destination node and the audio context have
\* each been released exactly once, and the session is recorded.
C6_ExportReleasesOnce ==
  \A j \in 1..MaxExports : \A T \in ExportEnds(j) :
    /\ T.exports[j].pc = "done"
    /\ T.exports[j].rel = AllOnce
    /\ SessionStateOf(T) = "recorded"

\* ------------------------------------------------------------------- C7
\* C7: a run that is encoding eventually has its encoder stopped and has
\* ended with the session recorded, whether or not the source node's ended
\* event ever arrives.
C7_EncodingEnds ==
  \A j \in 1..MaxExports :
    (exports[j].pc = "encoding")
      ~> (exports[j].pc = "done" /\ exports[j].vrec = "inactive" /\ SessionState = "recorded")

\* A run ended on its stop timeout: the timer fired while the source node was
\* still playing, and the clean-up of onstop had to stop the node.
C7_Witness ==
  \E j \in 1..MaxExports :
    /\ exports[j].pc = "done" /\ exports[j].outcome = << "success" >>
    /\ ~exports[j].timer /\ exports[j].src = "finishing"
    /\ SessionState = "recorded"

C9_ArtifactOnlyAfterFinalize ==
  audioBlob # NullBlob =>
    \/ SessionState \in {"recorded", "exporting"}
    \/ SessionState = "stopping" /\ wsLoading /\ ~isRecording

\* onstop has assembled the artifact and handed it to the waveform
\* collaborator, which has not answered yet.
C9_Witness ==
  /\ audioBlob # NullBlob /\ audioBlob.size >= MIN_RECORDING_BLOB_SIZE
  /\ SessionState = "stopping" /\ wsLoading
  /\ status = "Processing waveform"

\* ------------------------------------------------------------------ C10
\* C10: in every reachable state with a non-empty fragment buffer
\* (audioChunks) the session is recording or stopping.
C10_FragmentsOnlyWhileRecording ==
  audioChunks # << >> => SessionState \in {"recording", "stopping"}

\* Fragments are buffered while the recording goes on.
C10_Witness ==
  /\ audioChunks = << 500 >> /\ SessionState = "recording"
  /\ mediaRecorder # 0 /\ recorders[mediaRecorder].st = "recording"


RecordingFlows ==
  pendingMic
  + Cardinality({i \in 1..MaxRecordings : recorders[i].st = "recording" \/ recorders[i].pendStop})

\* The calls of generateVideo in flight.
ExportFlows ==
  Cardinality({j \in 1..MaxExports : exports[j].pc \in {"awaitClose", "awaitDecode", "encoding"}})

\* C12: in every reachable state at most one call of startRecording is in
\* flight (awaiting the microphone, recording, or stopping), at most one
\* microphone stream and one audio encoder are live, and at most one call of
\* generateVideo is in flight.
C12_OneFlowAtATime ==
  /\ RecordingFlows <= 1
  /\ Cardinality(micLive) <= 1
  /\ ExportFlows <= 1

\* ------------------------------------------------------------------ C13
\* A click on the start control is accepted by startRecording.
StartAccepted == ~ui.startDisabled /\ ~isRecording /\ ~isProcessingStop

\* C13: in every reachable state in which a start request is accepted, when
\* startRecording reaches getUserMedia the artifact, the transcript and the
\* fragment buffer are cleared, no handle of an earlier flow is live
\* (microphone stream, audio encoder, recognition engine, playback source,
\* export encoder, capture stream, redraw loop, audio context), and nothing
\* of an earlier flow is in flight (no other getUserMedia, no export run, no
\* grace timer).
C13_StartResetsEverything ==
  StartAccepted =>
    LET T == StartRecordingAccepted(Cur)
    IN  /\ T.audioBlob = NullBlob /\ T.finalTranscript = << >> /\ T.subtitle = << >>
        /\ T.audioChunks = << >>
        /\ T.isRecording /\ T.pendingMic = 1
        /\ T.micLive = {} /\ T.stream = 0 /\ T.mediaRecorder = 0
        /\ \A i \in 1..MaxRecordings : T.recorders[i].st # "recording"
        /\ T.sr # "listening"
        /\ \A j \in 1..MaxExports :
             /\ T.exports[j].src # "playing" /\ T.exports[j].vrec # "recording"
             /\ T.exports[j].cstream # "live" /\ T.exports[j].loop # "running"
             /\ T.exports[j].ctx # "running"
        /\ ~ExportActive(T)
        /\ T.errTimers = 0

\* ------------------------------------------------------------------ C14
\* The error codes of a SpeechRecognitionErrorEvent.
ErrorCodes ==
  { "no-speech", "aborted", "audio-capture", "network", "not-allowed",
    "service-not-allowed", "bad-grammar", "language-not-supported" }

\* What a recording consists of: the flags, the audio encoders, the microphone
\* streams, the fragment buffer, and the state of the controls.
RecordingOf(S) ==
  << S.isRecording, S.isProcessingStop, S.mediaRecorder, S.recorders, S.stream,
     S.micLive, S.audioChunks, S.supportedAudioType, S.audioBlob, S.ui, S.errTimers >>

\* C14: in every reachable state, (a) recognition.onerror, whatever the error
\* code, leaves the flags, the audio encoders, the microphone streams, the
\* fragment buffer and the controls as they are; and (b) a startRecording
\* that resumes while the engine cannot be started (recognition.start()
\* throws) sets up and starts the recording exactly as it does when the
\* engine starts.
C14_TranscriptionFailureKeepsRecording ==
  /\ \A code \in ErrorCodes :
       recognition # NULL => RecordingOf(RecognitionOnError(Cur, code)) = RecordingOf(Cur)
  /\ \A ctorOk \in BOOLEAN, startOk \in BOOLEAN :
       (pendingMic > 0 /\ nStarts < MaxRecordings /\ hasSpeechRecognition /\ sr # "idle")
       => LET T == StartRecordingResumed(Cur, nStarts + 1, ctorOk, startOk)
              T0 == StartRecordingResumed([Cur EXCEPT !.sr = "idle"], nStarts + 1, ctorOk, startOk)
          IN  /\ RecordingOf(T) = RecordingOf(T0)
              /\ T.ui.state = "recording" => T.sr = sr

\* The recognition engine reported a fatal error during a recording, and the
\* recording goes on.
C14_Witness ==
  /\ shown = << "Speech Rec Error" >> /\ sr = "ending"
  /\ isRecording /\ SessionState = "recording"
  /\ mediaRecorder # 0 /\ recorders[mediaRecorder].st = "recording"
  /\ stream \in micLive

\* ------------------------------------------------------------------ C15
\* The task of an encoder error on recorder i: the recorder becomes inactive
\* and fires error, the final fragment (size bytes) and stop.
ErrorTask(i, size, loadOk) ==
  Stopped(Fragment(OnError([Cur EXCEPT !.recorders = RecorderStopCall(@, i)]), i, size),
          i, loadOk)

\* The session after a full reset.
FullyReset(T) ==
  /\ T.audioBlob = NullBlob /\ T.finalTranscript = << >> /\ T.subtitle = << >>
  /\ T.audioChunks = << >>
  /\ ~T.isRecording /\ ~T.isProcessingStop
  /\ T.mediaRecorder = 0 /\ T.stream = 0
  /\ SessionStateOf(T) = "idle"

C16_AcquisitionFailureAborts ==
  /\ pendingMic > 0 =>
       LET T == MicrophoneDenied(Cur)
       IN  /\ T.pendingMic = pendingMic - 1
           /\ T.micLive = micLive /\ T.stream = stream
           /\ T.recorders = recorders /\ T.mediaRecorder = mediaRecorder
           /\ T.audioChunks = audioChunks
           /\ ~T.isRecording /\ SessionStateOf(T) = "idle"
  /\ \A ctorOk \in BOOLEAN, startOk \in BOOLEAN :
       (/\ pendingMic > 0 /\ nStarts < MaxRecordings
        /\ \A n \in 1..Len(mimeTypes) : mimeTypes[n] \notin typesSupported)
       => LET k == nStarts + 1
              T == StartRecordingResumed(Cur, k, ctorOk, startOk)
          IN  /\ T.pendingMic = pendingMic - 1
              /\ k \notin T.micLive /\ T.stream = 0
              /\ T.recorders = recorders /\ T.recorders[k].st = "none"
              /\ T.audioChunks = audioChunks
              /\ ~T.isRecording /\ SessionStateOf(T) = "idle"

\* On a host without a supported encoding the stream was acquired and the
\* flow aborted: the stream is stopped, no encoder exists, the session is idle.
C16_Witness ==
  /\ typesSupported = {} /\ nStarts = 1 /\ pendingMic = 0
  /\ micLive = {} /\ stream = 0 /\ recorders[1].st = "none"
  /\ ~isRecording /\ SessionState = "idle"

\* ------------------------------------------------------------------ C17
\* videoRecorder.onstop of run j is due: the task of a stop() is queued, or
\* the encoder is recording and may fail.
VideoOnStopDue(j) == exports[j].pendStop \/ exports[j].vrec = "recording"

\* The state in which that onstop runs, the final fragment having size bytes.
VideoOnStopEntry(j, size) ==
  IF exports[j].pendStop
    THEN VideoOnDataAvailable([Cur EXCEPT !.exports[j].pendStop = FALSE], j, size)
    ELSE VideoOnDataAvailable(VideoOnError([Cur EXCEPT !.exports[j].vrec = "inactive"], j),
                              j, size)

\* C17: whenever videoRecorder.onstop of a run runs, if the encoder delivered
\* no fragment of size > 0 the run reports EmptyOutput, nothing is handed to
\* downloadBlob, and the session is recorded; otherwise exactly one blob is
\* handed to downloadBlob, made of the delivered fragments of size > 0 in
\* arrival order (its size their sum, its type the chosen output encoding),
\* and the session is recorded.
C17_ExportOutput ==
  \A j \in 1..MaxExports, size \in VideoFragSizes :
    VideoOnStopDue(j) =>
      LET S == VideoOnStopEntry(j, size)
          T == VideoOnStop(S, j)
          kept == exports[j].videoChunks \o (IF size > 0 THEN << size >> ELSE << >>)
      IN  /\ SessionStateOf(T) = "recorded"
          /\ T.exports[j].pc = "done"
          /\ IF kept = << >>
               THEN /\ T.status = "EmptyOutput"
                    /\ T.exports[j].outcome = Append(S.exports[j].outcome, "EmptyOutput")
                    /\ T.exports[j].downloads = exports[j].downloads
               ELSE /\ T.status = "Download started"
                    /\ T.exports[j].outcome = Append(S.exports[j].outcome, "success")
                    /\ Len(T.exports[j].downloads) = Len(exports[j].downloads) + 1
                    /\ LET out == T.exports[j].downloads[Len(T.exports[j].downloads)]
                       IN  /\ out.parts = kept
                           /\ out.size = SumSeq(kept)
                           /\ out.type \in typesSupported \cup {"video/webm"}

\* A run delivered 300 and then 40 bytes and handed their concatenation to
\* downloadBlob; another ended with EmptyOutput and handed over nothing.
C17_Witness ==
  \E j \in 1..MaxExports :
    /\ exports[j].outcome = << "success" >>
    /\ Len(exports[j].downloads) = 1
    /\ exports[j].downloads[1].parts = << 300, 40 >>
    /\ exports[j].downloads[1].size = 340
    /\ SessionState = "recorded"

\* ------------------------------------------------------------------ C18
\* C18: in every reachable state in which the clear control is enabled, the
\* clear handler empties the visible transcript and the finalized transcript,
\* changes nothing else but the controls and the status line (the artifact in
\* particular is the same), and leaves the session recorded if the artifact
\* is present and idle if it is absent.
C18_ClearErasesTranscriptOnly ==
  ~ui.clearDisabled =>
    LET T == ClearUIBtnClick(Cur)
    IN  /\ T.subtitle = << >> /\ T.finalTranscript = << >>
        /\ T.audioBlob = audioBlob
        /\ T = [Cur EXCEPT !.subtitle = << >>, !.finalTranscript = << >>,
                           !.ui = T.ui, !.status = T.status, !.shown = T.shown]
        /\ SessionStateOf(T) = IF audioBlob # NullBlob THEN "recorded" ELSE "idle"
        /\ T.status = "Transcription cleared"

\* The transcript of a recorded session was cleared: both texts are empty,
\* the artifact is there, the session is recorded.
C18_Witness ==
  /\ shown = << "Transcription cleared" >>
  /\ subtitle = << >> /\ finalTranscript = << >>
  /\ audioBlob # NullBlob /\ audioBlob.size >= MIN_RECORDING_BLOB_SIZE
  /\ SessionState = "recorded"

\* ------------------------------------------------------------------ C19
\* C19: in every reachable state, (a) if a recording is going on or stopping
\* (isRecording or isProcessingStop), startRecording changes nothing but the
\* status line, which shows the warning; (b) if no recording is going on, or
\* a stop is already being processed, stopRecording changes nothing at all.
\* In both cases no flag, artifact, transcript, fragment or handle changes and
\* no encoder is asked anything.
C19_IllegalTransitionsAreNoOps ==
  /\ (isRecording \/ isProcessingStop) =>
       StartRecording(Cur) = [Cur EXCEPT !.status = "Cannot start recording",
                                         !.shown = << "Cannot start recording" >>]
  /\ (~isRecording \/ isProcessingStop) => StopRecording(Cur) = Cur

\* A start was requested while an earlier one awaited the microphone, and it
\* was refused with the warning.
C19_Witness ==
  /\ shown = << "Cannot start recording" >> /\ status = "Cannot start recording"
  /\ isRecording /\ pendingMic = 1
  /\ SessionState = "idle" /\ mediaRecorder = 0

\* ------------------------------------------------------------------ C20
\* No microphone stream, recognition engine, audio encoder, playback source
\* or export encoder is live in T, and no run of generateVideo is in flight.
NothingLive(T) ==
  /\ T.micLive = {}
  /\ T.sr # "listening"
  /\ \A i \in 1..MaxRecordings : T.recorders[i].st # "recording"
  /\ \A j \in 1..MaxExports :
       T.exports[j].src # "playing" /\ T.exports[j].vrec # "recording"
  /\ ~ExportActive(T)

\* C20: in every reachable state in which the reset control is enabled, the
\* reset handler leaves no microphone stream, recognition engine, audio
\* encoder, playback source or export encoder live, and no export in flight.
C20_ResetTerminatesFlows ==
  ~ui.resetDisabled => NothingLive(ResetBtnClick(Cur))

\* ------------------------------------------------------------------ C21
\* The transcript text after handler result T equals the one now.
SameTranscript(T) ==
  T.subtitle = subtitle /\ T.finalTranscript = finalTranscript

\* C21: in every reachable state in which the session is recorded or
\* exporting, no recognition result event and no recognition end event that
\* the engine can deliver changes the transcript text.
C21_TranscriptOnlyInRecordingWindow ==
  SessionState \in {"recorded", "exporting"} =>
    /\ sr = "listening" =>
         \A results \in ResultEvents : SameTranscript(RecognitionOnResult(Cur, results))
    /\ sr \in {"listening", "ending"} => SameTranscript(RecognitionOnEnd(Cur))

\* The session is recorded, the engine of the finished recording still
\* listens, and the next result event will rewrite the transcript box.
C21_Witness ==
  /\ SessionState = "recorded" /\ sr = "listening" /\ ~ui.readOnly
  /\ \E results \in ResultEvents : ~SameTranscript(RecognitionOnResult(Cur, results))

\* ------------------------------------------------------------------ C22
\* s is a prefix of t.
IsPrefix(s, t) == Len(s) <= Len(t) /\ SubSeq(t, 1, Len(s)) = s

StopAccepted == isRecording /\ ~isProcessingStop

\* C23: in every reachable state in which a stop request is accepted, the
\* request stops the audio encoder if it is recording (its finalize task is
\* queued) and stops the recognition engine if it is listening.
C23_StopRequestsBoth ==
  StopAccepted =>
    LET T == StopRecording(Cur)
    IN  /\ (mediaRecorder # 0 /\ recorders[mediaRecorder].st = "recording") =>
             /\ T.recorders[mediaRecorder].st = "inactive"
             /\ T.recorders[mediaRecorder].pendStop
        /\ sr = "listening" => T.sr # "listening"

\* The stop control is enabled on a recording whose encoder records and
\* whose engine listens.
C23_Witness ==
  /\ StopAccepted /\ ~ui.stopDisabled
  /\ mediaRecorder # 0 /\ recorders[mediaRecorder].st = "recording"
  /\ sr = "listening"
  /\ StopRecording(Cur).sr = "listening"
  /\ StopRecording(Cur).recorders[mediaRecorder].pendStop

\* ------------------------------------------------------------------ C24
\* C24: whenever the session is idle or recorded, no microphone stream is
\* live: every stream whose reference was dropped had its tracks stopped.
C24_NoLiveMicrophoneAtRest ==
  SessionState \in {"idle", "recorded"} => micLive = {}

\* ------------------------------------------------------------------ C25
\* The ended event of run j's playback source is still to come.
SourceDue(j) == exports[j].src \in {"playing", "finishing"}

\* The stop timeout of run j is still to fire.
TimerDue(j) == exports[j].timer

\* Between S and T the export encoder of run j was asked to stop.
StopRequested(S, T, j) ==
  /\ S.exports[j].vrec = "recording"
  /\ T.exports[j].vrec = "inactive" /\ T.exports[j].pendStop

\* Between S and T nothing was asked of the export encoder of run j.
NoStopRequest(S, T, j) ==
  /\ T.exports[j].vrec = S.exports[j].vrec
  /\ T.exports[j].pendStop = S.exports[j].pendStop

\* C25: in every reachable state and for every export run, whichever of the
\* playback-ended signal and the stop timeout fires first while the encoder
\* records requests its stop, the trigger that fires second then requests
\* nothing, and a trigger that fires when the encoder is not recording
\* requests nothing; an encoder whose stop is pending is not recording.
C25_StopRequestedAtMostOnce ==
  \A j \in 1..MaxExports :
    LET A == SourceOnEnded(Cur, j)
        B == StopTimeout(Cur, j)
    IN  /\ (SourceDue(j) /\ TimerDue(j) /\ exports[j].vrec = "recording") =>
             /\ StopRequested(Cur, A, j) /\ NoStopRequest(A, StopTimeout(A, j), j)
             /\ StopRequested(Cur, B, j) /\ NoStopRequest(B, SourceOnEnded(B, j), j)
        /\ (SourceDue(j) /\ exports[j].vrec # "recording") => NoStopRequest(Cur, A, j)
        /\ (TimerDue(j) /\ exports[j].vrec # "recording") => NoStopRequest(Cur, B, j)
        /\ exports[j].pendStop => exports[j].vrec = "inactive"

\* The playback source of a run ended first and stopped the encoder, whose
\* stop event has been handled; the run's stop timeout is still to fire.
C25_Witness ==
  \E j \in 1..MaxExports :
    /\ exports[j].src = "done" /\ TimerDue(j)
    /\ exports[j].vrec = "inactive" /\ ~exports[j].pendStop
    /\ exports[j].outcome = << "success" >>

\* ------------------------------------------------------------------ C26
\* C26: in every reachable state in which generateVideo passes its checks, a
\* capture request that fails or yields no video track ends the run at once:
\* CaptureUnavailable is the message left on the status line, the redraw loop
\* is cancelled, the run has no capture stream, audio context, playback source
\* or encoder, the module-scope audio handles are untouched, and the session
\* is recorded.
C26_CaptureFailureAborts ==
  (PreCheck(Cur) = "ok" /\ nExports < MaxExports) =>
    LET j == nExports + 1
        T == GenerateVideo(Cur, j, FALSE)
    IN  /\ T.status = "CaptureUnavailable"
        /\ T.shown[Len(T.shown)] = "CaptureUnavailable"
        /\ T.exports[j].outcome = << "CaptureUnavailable" >>
        /\ T.exports[j].pc = "done"
        /\ T.exports[j].loop = "cancelled" /\ T.canvasAnimationId = 0
        /\ T.exports[j].cstream = "none"
        /\ T.exports[j].ctx = "none" /\ T.exports[j].src = "none"
        /\ T.exports[j].vrec = "none" /\ ~T.exports[j].timer
        /\ T.audioContextForVideo = audioContextForVideo
        /\ T.bufferSourceNodeForVideo = bufferSourceNodeForVideo
        /\ T.destinationNodeForVideo = destinationNodeForVideo
        /\ T.ui.state = "recorded"

\* A run ended on a failed capture request.
C26_Witness ==
  \E j \in 1..MaxExports :
    /\ exports[j].outcome = << "CaptureUnavailable" >>
    /\ status = "CaptureUnavailable"
    /\ exports[j].loop = "cancelled" /\ exports[j].ctx = "none"
    /\ SessionState = "recorded"

SameSessionData(T) ==
  /\ T.audioBlob = audioBlob
  /\ T.subtitle = subtitle
  /\ T.finalTranscript = finalTranscript

\* C28: in every reachable state, every step of an export that can run (the
\* click with either answer of the capture request, the resumption after the
\* decode with every answer of the host, a fragment, the encoder's stop and
\* error tasks, the playback-ended signal, the stop timeout) leaves the audio
\* artifact and the transcript as they were.
C28_ExportOnlyReads ==
  /\ nExports < MaxExports =>
       \A captureOk \in BOOLEAN : SameSessionData(GenerateVideo(Cur, nExports + 1, captureOk))
  /\ \A j \in 1..MaxExports :
       /\ exports[j].pc = "awaitDecode" =>
            \A decodeOk \in BOOLEAN, ctorOk \in BOOLEAN, startOk \in BOOLEAN :
              SameSessionData(GenerateVideoResumed(Cur, j, decodeOk, ctorOk, startOk))
       /\ \A size \in VideoFragSizes :
            /\ exports[j].vrec = "recording" =>
                 /\ SameSessionData(VideoOnDataAvailable(Cur, j, size))
                 /\ SameSessionData(VideoOnStop(VideoOnDataAvailable(
                                      VideoOnError(Cur, j), j, size), j))
            /\ exports[j].pendStop =>
                 SameSessionData(VideoOnStop(VideoOnDataAvailable(Cur, j, size), j))
       /\ SourceDue(j) => SameSessionData(SourceOnEnded(Cur, j))
       /\ TimerDue(j) => SameSessionData(StopTimeout(Cur, j))

\* An export ended with a file handed to the user, and the artifact and the
\* transcript it read are still there.
C28_Witness ==
  \E j \in 1..MaxExports :
    /\ exports[j].outcome = << "success" >> /\ exports[j].downloads # << >>
    /\ audioBlob # NullBlob /\ Trim(subtitle) # << >>
    /\ SessionState = "recorded"

\* ------------------------------------------------------------------ C29
\* C29: whenever mediaRecorder.onstop runs with a large enough artifact, it
\* declares recorded at once if there is no waveform collaborator, and
\* otherwise hands the artifact to the collaborator and leaves the session
\* processing (a load the collaborator refuses on the spot counting as its
\* error report); and in every reachable state in which the collaborator has
\* still to report ready or error for the artifact, the session is not
\* recorded.
C29_RecordedAwaitsWaveform ==
  /\ \A i \in 1..MaxRecordings, size \in FragSizes :
       LET S == OnStopEntry(i, size)
           T == Stopped(S, i, TRUE)
       IN  (/\ OnStopDue(i)
            /\ SumSeq(S.audioChunks) >= MIN_RECORDING_BLOB_SIZE)
           => IF S.wavesurfer = NULL
                THEN T.ui.state = "recorded" /\ ~T.wsLoading
                ELSE T.ui.state = "processing" /\ T.wsLoading
  /\ wsLoading => ui.state # "recorded"

\* The session is recorded, with the controls of that state enabled, while
\* the waveform collaborator has still to answer for the artifact.
C29_Witness ==
  /\ wsLoading /\ wavesurfer # NULL /\ audioBlob # NullBlob
  /\ ui.state = "recorded" /\ ~ui.readOnly

\* ------------------------------------------------------------------ C30
\* The words of a text.
WordsOf(text) == { Split(text)[k] : k \in 1..Len(Split(text)) }

\* C30: for every transcript, width measure and max content width, every
\* line drawWrappedText draws measures at most the max content width, or is
\* one whole word of the transcript that alone is wider than the max width.
C30_WordWrap ==
  wrap.drawn =>
    \A k \in 1..Len(wrap.lines) :
      \/ Width(wrap.lines[k], wrap.measure) <= wrap.textMaxWidth
      \/ /\ wrap.lines[k] \in WordsOf(wrap.text)
         /\ Width(wrap.lines[k], wrap.measure) > wrap.textMaxWidth

\* A transcript was drawn on two lines: one of several words that fits, and
\* one of a single word wider than the max content width.
C30_Witness ==
  /\ wrap.drawn /\ Len(wrap.lines) = 2
  /\ \E k \in 1..Len(wrap.lines) :
       /\ Width(wrap.lines[k], wrap.measure) > wrap.textMaxWidth
       /\ wrap.lines[k] \in WordsOf(wrap.text)
  /\ \E k \in 1..Len(wrap.lines) :
       /\ Width(wrap.lines[k], wrap.measure) <= wrap.textMaxWidth
       /\ wrap.lines[k] \notin WordsOf(wrap.text)

\* ------------------------------------------------------------------ C31
\* The encodings of the ranked list.
AudioTypes == { mimeTypes[i] : i \in 1..Len(mimeTypes) }

\* type is an entry of the ranked list that the host supports, and the host
\* supports no entry ranked before it.
FirstSupported(type, supported) ==
  \E i \in 1..Len(mimeTypes) :
    /\ mimeTypes[i] = type /\ type \in supported
    /\ \A k \in 1..(i - 1) : mimeTypes[k] \notin supported

\* startRecording resumes, on a host supporting the encodings in supported,
\* as the spec says: with no supported entry it creates no encoder, releases
\* the stream and returns to idle; otherwise it records with the first
\* supported entry.
SelectsFirst(supported) ==
  \A ctorOk \in BOOLEAN, startOk \in BOOLEAN :
    LET k == nStarts + 1
        T == StartRecordingResumed([Cur EXCEPT !.typesSupported = supported],
                                   k, ctorOk, startOk)
    IN  IF supported \cap AudioTypes = {}
          THEN /\ T.recorders[k] = NoRecorder /\ T.mediaRecorder = mediaRecorder
               /\ T.stream = 0 /\ k \notin T.micLive
               /\ ~T.isRecording /\ T.ui.state = "idle"
          ELSE /\ FirstSupported(T.supportedAudioType, supported)
               /\ (ctorOk /\ startOk) =>
                    T.mediaRecorder = k /\ T.recorders[k].st = "recording"

C32_StopTerminates ==
  (isProcessingStop /\ ui.state = "processing") ~> (ui.state \in {"recorded", "idle"})

\* A stopped recording went through the waveform collaborator, whose error
\* event ended it in recorded with the artifact kept.
C32_Witness ==
  /\ ~isRecording /\ ~isProcessingStop /\ ~wsLoading
  /\ ui.state = "recorded" /\ audioBlob # NullBlob /\ wavesurfer = NULL
  /\ shown = << "Waveform Error", "Application reset" >>

\* ------------------------------------------------------------------ C33
\* The recorder i was asked to stop by resetApp(false), which dropped its
\* reference, and its finalize task is still queued; the reset has completed
\* and no start was accepted since.
CancelledByReset(i) ==
  /\ recorders[i].pendStop /\ mediaRecorder # i
  /\ ~isRecording /\ ui.state = "idle"
  /\ audioBlob = NullBlob /\ audioChunks = << >>

\* C33: the queued finalize task of a recording cancelled by a full reset
\* (its last fragment, then its stop event) leaves the session as the reset
\* left it: no artifact, an empty fragment buffer, the session in idle.
C33_LateEventsInert ==
  \A i \in 1..MaxRecordings, size \in FragSizes, loadOk \in BOOLEAN :
    CancelledByReset(i) =>
      LET T == Stopped(Fragment(Cur, i, size), i, loadOk)
      IN  T.audioBlob = NullBlob /\ T.audioChunks = << >> /\ T.ui.state = "idle"

\* The finalize of a cancelled recording has assembled an artifact after the
\* reset cleared supportedAudioType: the artifact carries no type.
C33_Witness ==
  /\ audioBlob # NullBlob /\ audioBlob.type = ""
  /\ audioBlob.size >= MIN_RECORDING_BLOB_SIZE
  /\ ~isRecording /\ ui.state \in {"recorded", "processing"}

\* ------------------------------------------------------------------ C34
EncoderRecording == \E i \in 1..MaxRecordings : recorders[i].st = "recording"

\* C34: in every reachable state in which an audio encoder is recording or
\* the program holds a microphone stream, isRecording is true.
C34_LiveImpliesRecording ==
  (EncoderRecording \/ stream # 0) => isRecording

\* A start flow resumed from its getUserMedia wait after a reset had cleared
\* isRecording: it keeps the stream and its encoder records.
C34_Witness ==
  /\ ~isRecording /\ ~isProcessingStop
  /\ stream # 0 /\ mediaRecorder # 0 /\ recorders[mediaRecorder].st = "recording"
  /\ ui.state = "recording"

\* ------------------------------------------------------------------ C35
\* A grace timer is pending and a recording is under way.  The recorder whose
\* onerror armed the timer fired its stop event in the same task, which
\* cleared isRecording: the recording under way began after it.
StaleGraceTimer == errTimers > 0 /\ (isRecording \/ isProcessingStop)

\* The handler left the recording flow and the shared export resources alone.
SessionUntouched(T) ==
  /\ T.isRecording = isRecording /\ T.isProcessingStop = isProcessingStop
  /\ T.mediaRecorder = mediaRecorder /\ T.recorders = recorders
  /\ T.stream = stream /\ T.micLive = micLive
  /\ T.audioChunks = audioChunks /\ T.ui.state = ui.state
  /\ T.canvasAnimationId = canvasAnimationId
  /\ T.bufferSourceNodeForVideo = bufferSourceNodeForVideo
  /\ T.destinationNodeForVideo = destinationNodeForVideo
  /\ T.audioContextForVideo = audioContextForVideo

\* C35: a grace timer of mediaRecorder.onerror that fires while a later
\* recording is under way leaves that recording alone, and the stop timeout of
\* export run j leaves the recording flow, the shared export resources and
\* every other run alone.
C35_TimersAffectOwnFlowOnly ==
  /\ StaleGraceTimer => SessionUntouched(OnErrorTimeout(Cur))
  /\ \A j \in 1..MaxExports :
       TimerDue(j) =>
         LET T == StopTimeout(Cur, j)
         IN  /\ SessionUntouched(T)
             /\ \A k \in 1..MaxExports \ {j} : T.exports[k] = exports[k]

\* The grace timer of an earlier recording has reset a later one: its
\* encoder was asked to stop while it was recording and the session is idle.
C35_Witness ==
  /\ errTimers = 0 /\ nStarts = 2 /\ mediaRecorder = 0
  /\ recorders[1].st = "inactive" /\ ~recorders[1].pendStop
  /\ recorders[2].st = "inactive" /\ recorders[2].pendStop
  /\ ~isRecording /\ ui.state = "idle"

\* ------------------------------------------------------------------ C36
ArtifactPresent == audioBlob # NullBlob /\ audioBlob.size >= MIN_RECORDING_BLOB_SIZE

\* C36: in every reachable state in which the session is recorded or
\* exporting, audioBlob is set and its size is at least
\* MIN_RECORDING_BLOB_SIZE.
C36_RecordedHasArtifact ==
  SessionState \in {"recorded", "exporting"} => ArtifactPresent

\* An export that was reset while it waited for the decode has failed and
\* declared the session recorded, the artifact being gone.
C36_Witness ==
  /\ ui.state = "recorded" /\ audioBlob = NullBlob
  /\ \E j \in 1..MaxExports : exports[j].pc = "done" /\ exports[j].outcome # << >>

\* ------------------------------------------------------------------ C37
\* A microphone stream or an audio encoder is live in S.
RecordingLive(S) ==
  \/ S.micLive # {}
  \/ \E i \in DOMAIN S.recorders : S.recorders[i].st = "recording"

\* A capture stream, a playing source node or an export encoder is live in S.
ExportLive(S) ==
  \E j \in 1..MaxExports :
    \/ S.exports[j].cstream = "live"
    \/ S.exports[j].src = "playing"
    \/ S.exports[j].vrec = "recording"

\* The state with a slot for the recorder of one more stream.
WithFreeSlot(S) == [S EXCEPT !.recorders = Append(@, NoRecorder)]

\* C37: in no reachable state are a microphone stream or audio encoder and an
\* export's capture stream, playing source or export encoder live together,
\* and no getUserMedia call that is pending resolves into such a state.
C37_RecordingAndExportApart ==
  /\ ~(RecordingLive(Cur) /\ ExportLive(Cur))
  /\ pendingMic > 0 =>
       \A ctorOk \in BOOLEAN, startOk \in BOOLEAN :
         LET T == StartRecordingResumed(WithFreeSlot(Cur), nStarts + 1, ctorOk, startOk)
         IN  ~(RecordingLive(T) /\ ExportLive(T))

\* A start request waits for the microphone while an export captures the
\* canvas.
C37_Witness ==
  /\ pendingMic > 0 /\ ~isRecording
  /\ ui.state = "processing"
  /\ \E j \in 1..MaxExports : exports[j].cstream = "live" /\ exports[j].pc = "awaitDecode"

\* ------------------------------------------------------------------ C38
\* What run j has reported so far.
Reports(j) == {exports[j].outcome[k] : k \in DOMAIN exports[j].outcome}

\* C38: in every reachable state, a run that has reported a failure has
\* handed nothing to downloadBlob, and a run that has reported success has
\* handed exactly one blob to it.
C38_DownloadOnlyOnSuccess ==
  \A j \in 1..MaxExports :
    /\ Reports(j) \ {"success"} # {} => exports[j].downloads = << >>
    /\ "success" \in Reports(j) => Len(exports[j].downloads) = 1

\* The export encoder failed after it had produced data: the run reported
\* the encoder error and then handed the output to downloadBlob.
C38_Witness ==
  \E j \in 1..MaxExports :
    /\ exports[j].outcome = << "EncoderError", "success" >>
    /\ Len(exports[j].downloads) = 1
    /\ exports[j].pc = "done" /\ ui.state = "recorded"

\* ------------------------------------------------------------------ C39
\* C39: in every reachable state isProcessingStop implies isRecording.
C39_StopFlagImpliesRecordingFlag ==
  isProcessingStop => isRecording

\* A stop is in progress (the encoder was asked to stop and its finalize is
\* still to come) and the recording flag is already cleared.
C39_Witness ==
  /\ isProcessingStop /\ ~isRecording
  /\ mediaRecorder # 0 /\ recorders[mediaRecorder].pendStop
  /\ ui.state = "idle"
====
